---- MODULE Spec2Model ----
(***************************************************************************)
(* ChainSonar: model of contract_activity_pulse.py.                        *)
(*                                                                         *)
(* One run of the script is modelled: __main__ obtains a connection and    *)
(* calls analyze_contract_pulse, which canonicalizes the target address,   *)
(* reads the chain head once, walks range(start_block, latest + 1) and     *)
(* accumulates the matching transactions, then computes the two metrics.   *)
(* The provider (node) is the environment: it answers every request with   *)
(* a value or with an exception, and the chain may grow during the scan.   *)
(* A fetched block is read once, front to back, so its transactions are    *)
(* drawn from TxPool as the inner loop's iterator yields them, at most     *)
(* MaxTxs per block. A raise inside the try and the except clause are two  *)
(* steps, with the exception in flight kept in exc.                        *)
(***************************************************************************)
EXTENDS Integers, Sequences, FiniteSets, TLC

\* ---------------------------------------------------------------- bounds
MaxHead == 1          \* chain head height at program start is in 0..MaxHead
MaxNumBlocks == 3     \* largest --blocks argument
MaxTxs == 2           \* transactions per fetched block

\* ------------------------------------------------------------ addresses
NoneVal == "None"
ValueError == "ValueError"

\* Raw address strings as the node or the user may hand them over: the same
\* account in lower-case and in checksummed spelling, and a malformed string.
ChecksumTable ==
    ("0xtt" :> "0xTt") @@ ("0xTt" :> "0xTt") @@
    ("0xoo" :> "0xOo") @@
    ("0xs1" :> "0xS1") @@ ("0xS1" :> "0xS1") @@
    ("0xs2" :> "0xS2")

is_address(raw) == raw \in DOMAIN ChecksumTable

\* Variant: a canonicalizer that validates nothing and hands a malformed
\* string back unchanged.
to_checksum_lenient(raw) ==
    IF is_address(raw) THEN ChecksumTable[raw] ELSE raw

\* w3.to_checksum_address: the canonical spelling, or ValueError.
to_checksum_address(raw) ==
    IF is_address(raw) THEN ChecksumTable[raw] ELSE ValueError

ContractInputs == {"0xtt", "0xTt", "bad"}
NumBlocksInputs == -1..MaxNumBlocks

\* Transactions a block may carry (tx['to'] is None for contract creation).
TxPool ==
    { [to |-> NoneVal, from |-> "0xs1"],
      [to |-> "0xtt",  from |-> "0xs1"],
      [to |-> "0xTt",  from |-> "0xS1"],
      [to |-> "0xTt",  from |-> "0xs2"],
      [to |-> "0xoo",  from |-> "0xs2"],
      [to |-> "0xTt",  from |-> "bad"],
      [to |-> "bad",   from |-> "0xs1"] }

NoTx == [to |-> NoneVal, from |-> NoneVal]

\* --------------------------------------------------------------- floats
\* A Python number is kept as an exact fraction; den = 0 marks a local that
\* was never bound (the division raised, or the line was not reached).
Number(a, b) == [num |-> a, den |-> b]
Unbound == Number(0, 0)
TrueDiv(a, b) == Number(a, b)
Times(v, k) == Number(v.num * k, v.den)
NumEq(v, p, q) == v.den > 0 /\ v.num * q = p * v.den

VARIABLES
    pc,                         \* position in the script
    chainHead,                  \* the node's current head height
    contract_address,           \* args.contract
    num_blocks,                 \* args.blocks
    target_address,
    latest_block_number,
    start_block,
    block_num,                  \* next value of the range iterator / loop variable
    tx,                         \* the transaction lines 78-79 work on, else NoTx
    tx_count,                   \* transactions the block's iterator has yielded
    exc,                        \* the exception in flight inside the try, "" if none
    period_transactions,
    period_unique_interactors,
    engagement_ratio,
    adoption_velocity_index,
    error,                      \* the error the run ended with, "" if none
    requests,                   \* log of the requests sent to the provider
    reported,                   \* the (block, exception) lines of tqdm.write
    blkTransactions,            \* history: matching txs of the current block
    blkSenders,                 \* history: their canonical senders
    okTransactions,             \* history: matching txs of the blocks not reported
    okSenders                   \* history: their canonical senders

vars == << pc, chainHead, contract_address, num_blocks, target_address,
           latest_block_number, start_block, block_num, tx, tx_count, exc,
           period_transactions, period_unique_interactors, engagement_ratio,
           adoption_velocity_index, error, requests, reported,
           blkTransactions, blkSenders, okTransactions, okSenders >>

progVars == << contract_address, num_blocks >>
scanVars == << target_address, latest_block_number, start_block, block_num >>
blockVars == << tx, tx_count, exc >>
accVars == << period_transactions, period_unique_interactors >>
metricVars == << engagement_ratio, adoption_velocity_index >>
histVars == << blkTransactions, blkSenders, okTransactions, okSenders >>

HeadRequest(h) == [op |-> "block_number", arg |-> 0, ret |-> h]
BlockRequest(n) == [op |-> "get_block", arg |-> n, ret |-> 0]

Init ==
    /\ pc = "main"
    /\ chainHead \in 0..MaxHead
    /\ contract_address \in ContractInputs
    /\ num_blocks \in NumBlocksInputs
    /\ target_address = NoneVal
    /\ latest_block_number = 0
    /\ start_block = 0
    /\ block_num = 0
    /\ tx = NoTx
    /\ tx_count = 0
    /\ exc = ""
    /\ period_transactions = 0
    /\ period_unique_interactors = {}
    /\ engagement_ratio = Unbound
    /\ adoption_velocity_index = Unbound
    /\ error = ""
    /\ requests = << >>
    /\ reported = {}
    /\ blkTransactions = 0
    /\ blkSenders = {}
    /\ okTransactions = 0
    /\ okSenders = {}

\* get_eth_connection and the guard of __main__.
GetEthConnection ==
    /\ pc = "main"
    /\ \E connected \in BOOLEAN :
          pc' = IF connected THEN "checksum" ELSE "exit"
    /\ UNCHANGED << chainHead, progVars, scanVars, blockVars, accVars,
                    metricVars, error, requests, reported, histVars >>

\* try: target_address = w3.to_checksum_address(...) except ValueError: return
ChecksumTarget ==
    /\ pc = "checksum"
    /\ IF to_checksum_address(contract_address) = ValueError
       THEN /\ pc' = "returned"
            /\ error' = "InvalidAddress"
            /\ UNCHANGED target_address
       ELSE /\ pc' = "head"
            /\ target_address' = to_checksum_address(contract_address)
            /\ UNCHANGED error
    /\ UNCHANGED << chainHead, progVars, latest_block_number, start_block,
                    block_num, blockVars, accVars, metricVars, requests,
                    reported, histVars >>

\* Variant: the window start without the + 1.
StartBlockOffByOne(latest, n) == latest - n

StartBlock(latest, n) == latest - n + 1

\* latest_block_number = w3.eth.block_number; start_block = ...
GetBlockNumber ==
    /\ pc = "head"
    /\ requests' = Append(requests, HeadRequest(chainHead))
    /\ latest_block_number' = chainHead
    /\ start_block' = StartBlock(chainHead, num_blocks)
    /\ block_num' = StartBlock(chainHead, num_blocks)
    /\ pc' = "loop"
    /\ UNCHANGED << chainHead, progVars, target_address, blockVars, accVars,
                    metricVars, error, reported, histVars >>

\* The head request raises: nothing catches it, the run dies.
GetBlockNumberFail ==
    /\ pc = "head"
    /\ requests' = Append(requests, HeadRequest(-1))
    /\ pc' = "raised"
    /\ error' = "ProviderError"
    /\ UNCHANGED << chainHead, progVars, scanVars, blockVars, accVars,
                    metricVars, reported, histVars >>

BlockFetchError == "BlockFetchError"
Report(n, e) == [block |-> n, e |-> e]
ReportedBlocks == { r.block : r \in reported }

\* Variant: the handler ends the loop (break) instead of going on.
ExceptHandlerBreak ==
    /\ pc = "except"
    /\ reported' = reported \cup {Report(block_num, exc)}
    /\ block_num' = latest_block_number + 1
    /\ exc' = ""
    /\ tx' = NoTx
    /\ tx_count' = 0
    /\ blkTransactions' = 0
    /\ blkSenders' = {}
    /\ pc' = "loop"
    /\ UNCHANGED << chainHead, progVars, target_address, latest_block_number,
                    start_block, accVars, metricVars, error, requests,
                    okTransactions, okSenders >>

\* except Exception as e: tqdm.write(...); continue
ExceptHandler ==
    /\ pc = "except"
    /\ reported' = reported \cup {Report(block_num, exc)}
    /\ block_num' = block_num + 1
    /\ exc' = ""
    /\ tx' = NoTx
    /\ tx_count' = 0
    /\ blkTransactions' = 0
    /\ blkSenders' = {}
    /\ pc' = "loop"
    /\ UNCHANGED << chainHead, progVars, target_address, latest_block_number,
                    start_block, accVars, metricVars, error, requests,
                    okTransactions, okSenders >>

\* raise inside the try block of the loop body.
Raise(e) == pc' = "except" /\ exc' = e

\* w3.eth.get_block(block_num, full_transactions=True) returns a block; the
\* node has blocks 0..chainHead only.
GetBlockOk ==
    /\ pc = "loop"
    /\ block_num <= latest_block_number
    /\ block_num >= 0
    /\ requests' = Append(requests, BlockRequest(block_num))
    /\ pc' = "tx"
    /\ UNCHANGED << chainHead, progVars, scanVars, blockVars, accVars,
                    metricVars, error, reported, histVars >>

\* Variant: a failed fetch is not caught and ends the run.
GetBlockFailAbort ==
    /\ pc = "loop"
    /\ block_num <= latest_block_number
    /\ requests' = Append(requests, BlockRequest(block_num))
    /\ pc' = "raised"
    /\ error' = BlockFetchError
    /\ UNCHANGED << chainHead, progVars, scanVars, blockVars, accVars,
                    metricVars, reported, histVars >>

\* Variant: a failed fetch is reported and the same block is asked for again.
GetBlockFailRetry ==
    /\ pc = "loop"
    /\ block_num <= latest_block_number
    /\ requests' = Append(requests, BlockRequest(block_num))
    /\ reported' = reported \cup {Report(block_num, BlockFetchError)}
    /\ UNCHANGED << pc, chainHead, progVars, scanVars, blockVars, accVars,
                    metricVars, error, histVars >>

\* get_block raises (pruned block, transport error, negative number).
GetBlockFail ==
    /\ pc = "loop"
    /\ block_num <= latest_block_number
    /\ requests' = Append(requests, BlockRequest(block_num))
    /\ Raise(BlockFetchError)
    /\ UNCHANGED << chainHead, progVars, scanVars, tx, tx_count, accVars,
                    metricVars, error, reported, histVars >>

Truthy(v) == v # NoneVal

\* Variant: the counter is not advanced.
IncrementSkipped(n) == n

Increment(n) == n + 1

\* The transaction matches the target, by the filter of the spec.
IsMatch(t) == t.to # NoneVal /\ is_address(t.to)
              /\ ChecksumTable[t.to] = target_address

\* for tx in block.transactions: the iterator yields the next transaction;
\* if tx['to'] and w3.to_checksum_address(tx['to']) == target_address:
\*     period_transactions += 1
NextTx ==
    /\ pc = "tx"
    /\ tx_count < MaxTxs
    /\ tx_count' = tx_count + 1
    /\ \E t \in TxPool :
          IF ~Truthy(t.to)
          THEN UNCHANGED << pc, tx, exc, period_transactions, blkTransactions >>
          ELSE IF to_checksum_address(t.to) = ValueError
          THEN /\ Raise(ValueError)
               /\ UNCHANGED << tx, period_transactions, blkTransactions >>
          ELSE IF to_checksum_address(t.to) = target_address
          THEN /\ period_transactions' = Increment(period_transactions)
               /\ blkTransactions' = blkTransactions + 1
               /\ tx' = t
               /\ pc' = "sender"
               /\ UNCHANGED exc
          ELSE UNCHANGED << pc, tx, exc, period_transactions, blkTransactions >>
    /\ UNCHANGED << chainHead, progVars, scanVars, period_unique_interactors,
                    metricVars, error, requests, reported, blkSenders,
                    okTransactions, okSenders >>

\* from_address = w3.to_checksum_address(tx['from'])
\* period_unique_interactors.add(from_address)
AddSender ==
    /\ pc = "sender"
    /\ LET from_address == to_checksum_address(tx.from) IN
       IF from_address = ValueError
       THEN /\ Raise(ValueError)
            /\ UNCHANGED << tx, period_unique_interactors, blkSenders >>
       ELSE /\ period_unique_interactors' =
                   period_unique_interactors \cup {from_address}
            /\ blkSenders' = blkSenders \cup {ChecksumTable[tx.from]}
            /\ tx' = NoTx
            /\ pc' = "tx"
            /\ UNCHANGED exc
    /\ UNCHANGED << chainHead, progVars, scanVars, tx_count,
                    period_transactions, metricVars, error, requests,
                    reported, blkTransactions, okTransactions, okSenders >>

\* The iterator is exhausted: the block went through without an exception.
EndBlock ==
    /\ pc = "tx"
    /\ okTransactions' = okTransactions + blkTransactions
    /\ okSenders' = okSenders \cup blkSenders
    /\ blkTransactions' = 0
    /\ blkSenders' = {}
    /\ block_num' = block_num + 1
    /\ tx_count' = 0
    /\ pc' = "loop"
    /\ UNCHANGED << chainHead, progVars, target_address, latest_block_number,
                    start_block, tx, exc, accVars, metricVars, error,
                    requests, reported >>

\* Variant: one wallet is already known before the period.
known_wallets_seeded == {"0xS1"}

known_wallets == {}

\* Variant: the division without its guard.
EngagementRatioUnguarded(total, wallets) == TrueDiv(total, wallets)

EngagementRatio(total, wallets) ==
    IF wallets > 0 THEN TrueDiv(total, wallets) ELSE Number(0, 1)

AdoptionVelocityIndex(newly, wallets) ==
    IF wallets > 0 THEN Times(TrueDiv(newly, wallets), 100) ELSE Number(0, 1)

\* The range is exhausted: compute and print the metrics.
ComputeMetrics ==
    /\ pc = "loop"
    /\ block_num > latest_block_number
    /\ LET total_unique_wallets == Cardinality(period_unique_interactors)
           newly_discovered_wallets == period_unique_interactors \ known_wallets
           e == EngagementRatio(period_transactions, total_unique_wallets)
           a == AdoptionVelocityIndex(Cardinality(newly_discovered_wallets),
                                      total_unique_wallets)
       IN  IF e.den = 0
           THEN /\ pc' = "raised"
                /\ error' = "ZeroDivisionError"
                /\ UNCHANGED metricVars
           ELSE IF a.den = 0
           THEN /\ pc' = "raised"
                /\ error' = "ZeroDivisionError"
                /\ engagement_ratio' = e
                /\ UNCHANGED adoption_velocity_index
           ELSE /\ pc' = "done"
                /\ engagement_ratio' = e
                /\ adoption_velocity_index' = a
                /\ UNCHANGED error
    /\ UNCHANGED << chainHead, progVars, scanVars, blockVars, accVars,
                    requests, reported, histVars >>

Scanning == pc \in {"head", "loop", "tx", "sender", "except"}

\* The chain gains a block while the scan is running.
Mine ==
    /\ Scanning
    /\ chainHead <= MaxHead
    /\ chainHead' = chainHead + 1
    /\ UNCHANGED << pc, progVars, scanVars, blockVars, accVars, metricVars,
                    error, requests, reported, histVars >>

Step ==
    \/ GetEthConnection
    \/ ChecksumTarget
    \/ GetBlockNumber
    \/ GetBlockNumberFail
    \/ GetBlockOk
    \/ GetBlockFail
    \/ NextTx
    \/ AddSender
    \/ ExceptHandler
    \/ EndBlock
    \/ ComputeMetrics

Next == Step \/ Mine

Spec == Init /\ [][Next]_vars

\* The script is sequential and every provider call returns or raises.
FairSpec == Spec /\ WF_vars(Step)

\* ------------------------------------------------------------ properties
Terminal == pc \in {"exit", "returned", "raised", "done"}
InLoop == pc \in {"loop", "tx", "sender", "except"}

IsFetch(r) == r.op = "get_block"
IsHead(r) == r.op = "block_number"
Fetches == SelectSeq(requests, IsFetch)
Requested == { requests[i].arg : i \in { j \in DOMAIN requests : IsFetch(requests[j]) } }
FetchFailures == { r \in reported : r.e = BlockFetchError }

\* A get_block request was sent and no block came back.
FetchFailed == pc = "except" /\ exc = BlockFetchError /\ pc' # "except"

C1_Safe ==
    reported # {} =>
        /\ InLoop \/ pc = "done"
        /\ error = ""
        /\ pc = "done" =>
              \A r \in FetchFailures :
                 \A later \in (r.block + 1)..latest_block_number :
                    later \in Requested

\* C1: a failed block fetch is non-fatal. The failure is reported, the loop
\* goes on with the next block number, every later block number of the window
\* is still requested, and the run ends with the metrics computed, whatever
\* set of blocks fails.
C1_FetchFailureNonFatal ==
    /\ []C1_Safe
    /\ [][FetchFailed =>
             /\ Report(block_num, BlockFetchError) \in reported'
             /\ block_num' = block_num + 1
             /\ pc' = "loop"]_vars
    /\ (FetchFailures # {}) ~> (pc = "done" /\ engagement_ratio # Unbound
                                 /\ adoption_velocity_index # Unbound)

\* A block in the middle of the window failed to fetch, a later one was
\* processed, and the metrics were computed.
C1_Witness ==
    /\ pc = "done"
    /\ \E r \in FetchFailures :
          /\ r.block >= 0
          /\ r.block < latest_block_number
          /\ (r.block + 1) \notin ReportedBlocks
    /\ Cardinality(FetchFailures) >= 2

\* C2: at the end of the scan the counter and the sender set are those of the
\* matching transactions of the blocks that were not reported as failed; a
\* reported block contributes nothing.
C2_OnlySucceededBlocksCount ==
    pc = "done" =>
        /\ period_transactions = okTransactions
        /\ period_unique_interactors = okSenders

\* C3: totalTransactions >= |uniqueSenders| in every state of the scan.
C3_TotalAtLeastSenders ==
    period_transactions >= Cardinality(period_unique_interactors)

\* The counter was advanced for a transaction whose sender is not inserted
\* yet, after an earlier block failed and with senders already recorded.
C3_Witness ==
    /\ pc = "sender"
    /\ reported # {}
    /\ period_unique_interactors # {}
    /\ period_transactions > Cardinality(period_unique_interactors)

\* C4: with no unique sender at the end of the loop both metrics are 0 and
\* no division by zero happens.
C4_EmptyGivesZero ==
    ((pc = "done" \/ error = "ZeroDivisionError")
       /\ period_unique_interactors = {}) =>
        /\ pc = "done"
        /\ error = ""
        /\ NumEq(engagement_ratio, 0, 1)
        /\ NumEq(adoption_velocity_index, 0, 1)

\* Every block of a window of two or more failed; the metrics are computed.
C4_Witness ==
    /\ pc = "done"
    /\ period_unique_interactors = {}
    /\ num_blocks >= 2
    /\ Cardinality(ReportedBlocks) = num_blocks

\* C5: with no known sender the adoption index is exactly 100 whenever there
\* is a unique sender at the end of the scan.
C5_AdoptionIsHundred ==
    (pc = "done" /\ period_unique_interactors # {}) =>
        NumEq(adoption_velocity_index, 100, 1)

\* Two senders and more transactions than senders.
C5_Witness ==
    /\ pc = "done"
    /\ Cardinality(period_unique_interactors) = 2
    /\ period_transactions >= 3

\* C6: for num_blocks >= 1 the window is start_block..latest_block_number,
\* latest_block_number is the answer to the one head request, start_block =
\* latest_block_number - num_blocks + 1 <= latest_block_number, the window has
\* num_blocks numbers, and these are the block numbers requested.
C6_Window ==
    (num_blocks >= 1 /\ (InLoop \/ pc = "done")) =>
        /\ Len(SelectSeq(requests, IsHead)) = 1
        /\ requests[1] = HeadRequest(latest_block_number)
        /\ latest_block_number <= chainHead
        /\ start_block = latest_block_number - num_blocks + 1
        /\ start_block <= latest_block_number
        /\ Cardinality(start_block..latest_block_number) = num_blocks
        /\ Requested \subseteq start_block..latest_block_number
        /\ pc = "done" =>
              /\ Requested = start_block..latest_block_number
              /\ Len(Fetches) = num_blocks

\* A window larger than the chain, scanned to the end while the chain grew.
C6_Witness ==
    /\ pc = "done"
    /\ num_blocks > latest_block_number + 1
    /\ chainHead > latest_block_number
    /\ num_blocks >= 2

\* C7: a call with num_blocks <= 0 is rejected with InvalidArgumentError: no
\* block is fetched, no metrics are produced.
C7_NonPositiveRejected ==
    (num_blocks <= 0) =>
        /\ Requested = {}
        /\ engagement_ratio = Unbound
        /\ adoption_velocity_index = Unbound
        /\ pc # "done"
        /\ (pc \in {"loop", "raised"} /\ error # "ProviderError")
              => error = "InvalidArgumentError"

\* C8: a target address that cannot be canonicalized ends the call with the
\* invalid-address error before the scan: no block is ever requested and no
\* metrics are computed.
C8_InvalidAddressStops ==
    ~is_address(contract_address) =>
        /\ pc \in {"main", "exit", "checksum", "returned"}
        /\ pc = "returned" => error = "InvalidAddress"
        /\ Requested = {}
        /\ engagement_ratio = Unbound
        /\ adoption_velocity_index = Unbound

C8_Witness ==
    /\ pc = "returned"
    /\ error = "InvalidAddress"
    /\ ~is_address(contract_address)
    /\ requests = << >>

C9_Safe ==
    /\ (InLoop \/ pc \in {"done", "raised"}) => Len(requests) >= 1
    /\ \A i \in DOMAIN requests :
          IF i = 1
          THEN IsHead(requests[i])
          ELSE /\ IsFetch(requests[i])
               /\ requests[i].arg = start_block + (i - 2)
               /\ requests[i].arg <= latest_block_number
    /\ num_blocks >= 1 => Len(Fetches) <= num_blocks
    /\ num_blocks <= 0 => Len(Fetches) = 0

\* C9: the provider gets one head request and then block requests in strictly
\* ascending order from start_block, each block number at most once and no
\* more than num_blocks of them, and the scan terminates.
C9_RequestOrder ==
    /\ []C9_Safe
    /\ (pc = "head") ~> (pc \in {"done", "raised"})

\* A full window of several blocks was requested, some of them failed.
C9_Witness ==
    /\ pc = "done"
    /\ num_blocks >= 2
    /\ Len(requests) = num_blocks + 1
    /\ FetchFailures # {}
    /\ \E r \in reported : r.e = ValueError

\* An exception raised while a transaction of a fetched block is handled
\* leaves the handler.
MidBlockError == pc = "except" /\ exc = ValueError /\ pc' # "except"

\* C10: an error in the middle of a block keeps what the earlier transactions
\* of the block added, skips the rest of the block, reports the block and
\* goes on with the next block; the counter and the sender set never shrink.
C10_BlockNotAtomic ==
    [][/\ period_transactions' >= period_transactions
       /\ period_unique_interactors \subseteq period_unique_interactors'
       /\ (pc \in {"tx", "sender"} /\ pc' = "except") =>
             /\ period_transactions' = period_transactions
             /\ period_unique_interactors' = period_unique_interactors
       /\ MidBlockError =>
             /\ period_transactions' = period_transactions
             /\ period_unique_interactors' = period_unique_interactors
             /\ period_transactions >= okTransactions + blkTransactions
             /\ okSenders \cup blkSenders \subseteq period_unique_interactors
             /\ okTransactions' = okTransactions
             /\ Report(block_num, ValueError) \in reported'
             /\ block_num' = block_num + 1
             /\ tx_count' = 0
             /\ pc' = "loop"]_vars

\* The scan ended holding more than the unreported blocks account for: a
\* reported block left its first transactions in the counter and the set.
C10_Witness ==
    /\ pc = "done"
    /\ period_transactions > okTransactions
    /\ period_unique_interactors # okSenders
    /\ \E r \in reported : r.e = ValueError /\ r.block < latest_block_number


====
